---- MODULE Spec2Model ----
(***************************************************************************)
(* A model of the attribute collection library (porter::attr): tags, Value *)
(* and KeyValue containers, Single and Multiple holders, and Collection.   *)
(*                                                                         *)
(* The library decides most of its behaviour at compile time.  Types are   *)
(* modelled as values: a holder type is a record (tag, kind, required, V), *)
(* a Collection's holder pack is a sequence of holder types, and the       *)
(* traits (contains, are_holders_valid, by_tag, extend, from) are          *)
(* operators over such sequences, computed by the same recursion as the    *)
(* templates.  An operation the compiler refuses (a failed static_assert,  *)
(* no viable overload, an ill-formed body) is an operation that returns    *)
(* "rejected" and leaves every object as it was.                           *)
(***************************************************************************)
EXTENDS Integers, Sequences, FiniteSets, TLC

\* ---------------------------------------------------------------- bounds
\* Attribute values are 1..MaxVal.
MaxVal == 2
\* The longest pack of containers handed to extend().
MaxPack == 2
\* The most containers one expression of operator+ adds up.
MaxOperands == 4

\* -------------------------------------------------------------- universe
\* The tags of tags.h the model uses.
Tags == {"service", "context"}
\* tags.h: Service is a Value container, Context a KeyValue container.
ValueTags == {"service"}
KeyValueTags == {"context"}
\* The attribute names of the keyed entries (test.cpp's "LID", "DFPATH").
\* The tags of tags.h whose containers the sums of operator+ add up.
SumTags == {"service", "subsystem", "label", "pwho", "context"}
Names == {"LID", "DFPATH"}
Vals == 1..MaxVal

\* std::optional<V>: the empty set is std::nullopt, {v} holds v.
nullopt == {}
has_value(opt) == opt # {}
value_of(opt) == CHOOSE v \in opt : TRUE
OptVals == {nullopt} \cup {{v} : v \in Vals}
\* std::optional<std::pair<std::string_view, V>> of a KeyValue.
OptPairs == {nullopt} \cup {{<<k, v>>} : k \in Names, v \in Vals}

\* ------------------------------------------------------- attribute.h
\* The value type parameter V of a container or holder: "type" is the tag's
\* declared Tag::type, "pair" is std::pair<std::string_view, Tag::type>.
is_tag_valid(Tag) == Tag \in Tags \cup SumTags

Value(Tag, opt) == [kind |-> "Value", tag |-> Tag, V |-> "type", d_value |-> opt]
KeyValue(Tag, opt) == [kind |-> "KeyValue", tag |-> Tag, V |-> "pair", d_value |-> opt]

Values == {Value(t, o) : t \in ValueTags, o \in OptVals}
KeyValues == {KeyValue(t, o) : t \in KeyValueTags, o \in OptPairs}

\* ----------------------------------------------------------- holder.h
\* Holder types.  Single<Tag, Required> and Multiple<Tag> take V = Tag::type
\* by default; Multiple<Tag, V> with V = "pair" is what traits::from makes
\* of a KeyValue.
SingleT(Tag, Required) == [tag |-> Tag, kind |-> "Single", required |-> Required, V |-> "type"]
MultipleT(Tag, V) == [tag |-> Tag, kind |-> "Multiple", required |-> FALSE, V |-> V]
\* by_tag_impl's "void": no holder type.
void == [tag |-> "", kind |-> "void", required |-> FALSE, V |-> ""]

\* The empty std::unordered_map.
EmptyMap == [k \in {} |-> 0]

\* A default-constructed holder object of type H.
DefaultHolder(H) == [type |-> H, d_value |-> nullopt, d_values |-> EmptyMap]

is_valid(H) == H.kind \in {"Single", "Multiple"} /\ is_tag_valid(H.tag)
tag_of(H) == H.tag
from(Attr) ==
    IF Attr.kind = "Value"
    THEN [tag |-> Attr.tag, kind |-> "Single", required |-> TRUE, V |-> Attr.V]
    ELSE [tag |-> Attr.tag, kind |-> "Multiple", required |-> FALSE, V |-> Attr.V]

\* Mutants of Single::operator=: one that stores nothing, one that keeps a
\* value it already holds.
Single_assign_stores_nothing(h, attr) ==
    IF attr.kind = "Value" /\ attr.tag = h.type.tag /\ attr.V = h.type.V
    THEN [rejected |-> FALSE, holder |-> h]
    ELSE [rejected |-> TRUE, holder |-> h]
Single_assign_first_wins(h, attr) ==
    IF attr.kind = "Value" /\ attr.tag = h.type.tag /\ attr.V = h.type.V
    THEN [rejected |-> FALSE,
          holder |-> IF has_value(h.d_value) THEN h
                     ELSE [h EXCEPT !.d_value = attr.d_value]]
    ELSE [rejected |-> TRUE, holder |-> h]

\* Mutant of Single::operator=: an empty Value is skipped, as Multiple skips
\* an empty KeyValue.
Single_assign_skips_empty(h, attr) ==
    IF attr.kind = "Value" /\ attr.tag = h.type.tag /\ attr.V = h.type.V
    THEN [rejected |-> FALSE,
          holder |-> IF has_value(attr.d_value)
                     THEN [h EXCEPT !.d_value = attr.d_value]
                     ELSE h]
    ELSE [rejected |-> TRUE, holder |-> h]

\* Mutant of Single::operator=: the overload that static_asserts on a
\* mismatching tag is missing, a Value of any tag is stored.
Single_assign_any_tag(h, attr) ==
    IF attr.kind = "Value" /\ attr.V = h.type.V
    THEN [rejected |-> FALSE, holder |-> [h EXCEPT !.d_value = attr.d_value]]
    ELSE [rejected |-> TRUE, holder |-> h]

\* Single::operator=(Value / KeyValue).  Only a Value of the holder's own tag
\* and value type reaches a body that assigns; the other overloads end in a
\* static_assert.
Single_assign(h, attr) ==
    IF attr.kind = "Value" /\ attr.tag = h.type.tag /\ attr.V = h.type.V
    THEN [rejected |-> FALSE, holder |-> [h EXCEPT !.d_value = attr.d_value]]
    ELSE [rejected |-> TRUE, holder |-> h]

\* d_values[key] = value
MapStore(m, key, value) ==
    [k \in (DOMAIN m) \cup {key} |-> IF k = key THEN value ELSE m[k]]

\* Mutant of Multiple::operator=: no test of *kv, an empty KeyValue stores a
\* placeholder entry.
Multiple_assign_placeholder(h, attr) ==
    IF attr.kind = "KeyValue" /\ attr.tag = h.type.tag /\ attr.V = "pair"
       /\ h.type.V = "type"
    THEN [rejected |-> FALSE,
          holder |-> IF has_value(attr.d_value)
                     THEN LET kv == value_of(attr.d_value)
                          IN [h EXCEPT !.d_values = MapStore(h.d_values, kv[1], kv[2])]
                     ELSE [h EXCEPT !.d_values = MapStore(h.d_values, "", 0)]]
    ELSE [rejected |-> TRUE, holder |-> h]

\* Multiple::operator=(KeyValue / Value).  KeyValue<Tag> selects the assigning
\* overloads; their body "d_values[key] = value" is well formed only when the
\* map's mapped type V is the tag's own type.
Multiple_assign(h, attr) ==
    IF attr.kind = "KeyValue" /\ attr.tag = h.type.tag /\ attr.V = "pair"
       /\ h.type.V = "type"
    THEN [rejected |-> FALSE,
          holder |-> IF has_value(attr.d_value)
                     THEN LET kv == value_of(attr.d_value)
                          IN [h EXCEPT !.d_values = MapStore(h.d_values, kv[1], kv[2])]
                     ELSE h]
    ELSE [rejected |-> TRUE, holder |-> h]

Holder_assign(h, attr) ==
    IF h.type.kind = "Single" THEN Single_assign(h, attr) ELSE Multiple_assign(h, attr)

\* Mutant of Single::operator bool: the Required flag is ignored.
Single_bool_ignores_required(h) == has_value(h.d_value)

\* Single::operator bool and Multiple::operator bool.
Single_bool(h) == ~h.type.required \/ has_value(h.d_value)
Multiple_bool(h) == TRUE
Holder_bool(h) == IF h.type.kind = "Single" THEN Single_bool(h) ELSE Multiple_bool(h)

\* Mutant of Multiple::operator()(key): operator[]-like, an absent key yields
\* a value-initialised entry instead of std::nullopt.
Multiple_call_default(h, item) ==
    IF item \in DOMAIN h.d_values THEN {h.d_values[item]} ELSE {0}

\* Multiple::operator()(key): optional reference to the stored value.
Multiple_call(h, item) ==
    IF item \in DOMAIN h.d_values THEN {h.d_values[item]} ELSE nullopt

\* ------------------------------------------------------- collection.h
\* traits::contains<T, Hs...>
RECURSIVE contains(_, _)
contains(T, Hs) ==
    IF Hs = <<>> THEN FALSE
    ELSE IF Len(Hs) = 1 THEN T = Hs[1]
    ELSE T = Head(Hs) \/ contains(T, Tail(Hs))

\* traits::are_holders_valid<Hs...>
RECURSIVE are_holders_valid(_)
are_holders_valid(Hs) ==
    IF Hs = <<>> THEN TRUE
    ELSE is_valid(Head(Hs)) /\ ~contains(Head(Hs), Tail(Hs))
         /\ are_holders_valid(Tail(Hs))

\* Mutant of traits::by_tag_impl: the last holder of the tag, not the first.
RECURSIVE by_tag_impl_last(_, _)
by_tag_impl_last(Tag, Hs) ==
    IF Hs = <<>> THEN void
    ELSE IF Tag = tag_of(Hs[Len(Hs)]) THEN Hs[Len(Hs)]
    ELSE by_tag_impl_last(Tag, SubSeq(Hs, 1, Len(Hs) - 1))

\* traits::by_tag_impl<Tag, Hs...>
RECURSIVE by_tag_impl(_, _)
by_tag_impl(Tag, Hs) ==
    IF Hs = <<>> THEN void
    ELSE IF Tag = tag_of(Head(Hs)) THEN Head(Hs)
    ELSE by_tag_impl(Tag, Tail(Hs))

\* traits::extend<T<Hs...>, New...>
extend1(Hs, New) == IF contains(New, Hs) THEN Hs ELSE <<New>> \o Hs
RECURSIVE extend(_, _)
extend(Hs, News) ==
    IF News = <<>> THEN Hs
    ELSE IF Len(News) = 1 THEN extend1(Hs, News[1])
    ELSE extend(extend1(Hs, Head(News)), Tail(News))

\* The holder pack of a Collection object, and std::get<H>(d_holders).
Holders(c) == [i \in 1..Len(c) |-> c[i].type]
IndexOf(H, c) == CHOOSE i \in 1..Len(c) : c[i].type = H
get(H, c) == c[IndexOf(H, c)]

\* Collection() = default
DefaultCollection(Hs) == [i \in 1..Len(Hs) |-> DefaultHolder(Hs[i])]

\* Collection::operator<<(Value / KeyValue)
Merge(c, attr) ==
    LET H == by_tag_impl(attr.tag, Holders(c))
    IN IF H = void
       THEN [rejected |-> TRUE, coll |-> c]
       ELSE LET i == IndexOf(H, c)
                r == Holder_assign(c[i], attr)
            IN [rejected |-> r.rejected, coll |-> [c EXCEPT ![i] = r.holder]]

\* Collection::assign<Current>(const Collection<Others...> &other)
Collection_assign(d, Current, other) ==
    IF contains(Current, Holders(other))
    THEN [d EXCEPT ![IndexOf(Current, d)] = get(Current, other)]
    ELSE d

\* (assign<Holders>(other), ...)
RECURSIVE AssignAll(_, _, _)
AssignAll(d, Hs, other) ==
    IF Hs = <<>> THEN d
    ELSE AssignAll(Collection_assign(d, Head(Hs), other), Tail(Hs), other)

\* Collection<Hs...>::Collection(const Collection<Others...> &other)
Collection_from(Hs, other) == AssignAll(DefaultCollection(Hs), Hs, other)

\* (extended << ... << attributes): a left fold; one refused << refuses the
\* whole expression, and "refused" is the container the compiler stopped at.
RECURSIVE MergeAll(_, _)
MergeAll(c, attributes) ==
    IF attributes = <<>> THEN [rejected |-> FALSE, coll |-> c, refused |-> <<>>]
    ELSE LET r == Merge(c, Head(attributes))
         IN IF r.rejected
            THEN [rejected |-> TRUE, coll |-> c, refused |-> <<Head(attributes)>>]
            ELSE MergeAll(r.coll, Tail(attributes))

\* Collection::extend(New &&...attributes) &&
Collection_extend(c, attributes) ==
    LET News == [i \in 1..Len(attributes) |-> from(attributes[i])]
        extended == Collection_from(extend(Holders(c), News), c)
        r == MergeAll(extended, attributes)
    IN IF r.rejected
       THEN [rejected |-> TRUE, coll |-> c, refused |-> r.refused]
       ELSE r

\* Mutant of Collection::ready: the fold starts after the first holder.
RECURSIVE ready_skips_first(_, _)
ready_skips_first(c, n) ==
    IF n <= 1 THEN TRUE ELSE ready_skips_first(c, n - 1) /\ Holder_bool(c[n])

\* Collection::ready(std::index_sequence<Idx...>): (true && ... && bool(get<Idx>))
RECURSIVE ready(_, _)
ready(c, n) == IF n = 0 THEN TRUE ELSE ready(c, n - 1) /\ Holder_bool(c[n])

\* Collection::operator bool
Collection_bool(c) == ready(c, Len(c))

\* Collection::operator()(Tag): the storage of the holder by_tag resolves to,
\* an optional for a Single and the map for a Multiple.
Collection_call(c, Tag) ==
    LET H == by_tag_impl(Tag, Holders(c))
    IN IF H = void THEN [rejected |-> TRUE, result |-> nullopt]
       ELSE [rejected |-> FALSE,
             result |-> IF H.kind = "Single" THEN get(H, c).d_value
                        ELSE get(H, c).d_values]

\* Collection::operator()(Tag, key): needs H::key_type, which only Multiple has.
Collection_call_key(c, Tag, key) ==
    LET H == by_tag_impl(Tag, Holders(c))
    IN IF H = void \/ H.kind # "Multiple" THEN [rejected |-> TRUE, result |-> nullopt]
       ELSE [rejected |-> FALSE, result |-> Multiple_call(get(H, c), key)]

\* ------------------------------------------------------------- the state
\* coll: the program's Collection object (its tuple d_holders).
\* last: the operation that produced the current state: its name, whether the
\*       compiler refused it, the arguments of a lookup (of a refused << or
\*       extend(): the container it was refused for) and what a lookup
\*       returned.
VARIABLES coll, last
vars == <<coll, last>>

Op(name, rejected, args, result) ==
    [op |-> name, rejected |-> rejected, args |-> args, result |-> result]

\* The holder types a Collection is declared with.
DeclTypes ==
    {SingleT(t, r) : t \in ValueTags, r \in BOOLEAN}
        \cup {MultipleT(t, "type") : t \in KeyValueTags}
RECURSIVE SeqsUpTo(_, _)
SeqsUpTo(S, n) ==
    IF n = 0 THEN {<<>>}
    ELSE LET shorter == SeqsUpTo(S, n - 1)
         IN shorter \cup {<<x>> \o s : x \in S, s \in {t \in shorter : Len(t) = n - 1}}
\* The packs the class's static_assert accepts.
DeclPacks == {Hs \in SeqsUpTo(DeclTypes, Cardinality(DeclTypes)) : are_holders_valid(Hs)}
Attrs == Values \cup KeyValues
\* The containers handed to extend(): each carries a value, and two Values of
\* one tag can differ.
PackAttrs ==
    {Value(t, {v}) : t \in ValueTags, v \in {1, MaxVal}}
        \cup {KeyValue(t, {<<"LID", 1>>}) : t \in KeyValueTags}
\* The argument packs of extend(): pairwise different containers.
Packs ==
    {pack \in SeqsUpTo(PackAttrs, MaxPack) :
        \A i, j \in 1..Len(pack) : pack[i] = pack[j] => i = j}

\* Coll coll;
Init ==
    /\ \E Hs \in DeclPacks : coll = DefaultCollection(Hs)
    /\ last = Op("declare", FALSE, <<>>, nullopt)

\* coll << attr
MergeIn(attr) ==
    LET r == Merge(coll, attr)
    IN /\ coll' = r.coll
       /\ last' = Op("merge", r.rejected, IF r.rejected THEN <<attr>> ELSE <<>>, nullopt)

\* Collection<Hs...> base {coll};  the program goes on with base.
Narrow(Hs) ==
    /\ coll' = Collection_from(Hs, coll)
    /\ last' = Op("narrow", FALSE, <<>>, nullopt)

\* auto extended = std::move(coll).extend(attributes...);  the program goes on
\* with extended.
Extend(attributes) ==
    LET r == Collection_extend(coll, attributes)
    IN /\ coll' = r.coll
       /\ last' = Op("extend", r.rejected, r.refused, nullopt)

\* coll(tag)
Lookup(Tag) ==
    LET r == Collection_call(coll, Tag)
    IN /\ coll' = coll
       /\ last' = Op("lookup", r.rejected, <<Tag>>, r.result)

\* coll(tag, key)
LookupKey(Tag, key) ==
    LET r == Collection_call_key(coll, Tag, key)
    IN /\ coll' = coll
       /\ last' = Op("lookup_key", r.rejected, <<Tag, key>>, r.result)

Next ==
    \/ \E attr \in Attrs : MergeIn(attr)
    \/ \E Hs \in DeclPacks : Narrow(Hs)
    \/ \E attributes \in Packs : Extend(attributes)
    \/ \E t \in Tags : Lookup(t)
    \/ \E t \in Tags, k \in Names : LookupKey(t, k)

Spec == Init /\ [][Next]_vars
\* ------------------------------------------------------------ properties
\* What a holder stores, whatever its type.
Stored(h) == [d_value |-> h.d_value, d_values |-> h.d_values]
\* Whether c declares a holder for Tag, and the holder lookups and << resolve
\* that tag to.
Declares(c, Tag) == by_tag_impl(Tag, Holders(c)) # void
HolderOf(c, Tag) == get(by_tag_impl(Tag, Holders(c)), c)
SuppliedTags(pack) == {pack[i].tag : i \in 1..Len(pack)}
\* The last container of the pack that carries Tag.
LastSupplied(pack, Tag) ==
    pack[CHOOSE i \in 1..Len(pack) :
            pack[i].tag = Tag /\ \A j \in (i + 1)..Len(pack) : pack[j].tag # Tag]
\* The step is an accepted std::move(coll).extend(pack...).
ExtendedBy(pack) ==
    /\ last'.op = "extend" /\ ~last'.rejected
    /\ ~Collection_extend(coll, pack).rejected
    /\ coll' = Collection_extend(coll, pack).coll
\* The step is an accepted coll << attr.
MergedIn(attr) ==
    /\ last'.op = "merge" /\ ~last'.rejected
    /\ LET r == Merge(coll, attr) IN ~r.rejected /\ coll' = r.coll

\* C1: every Collection that can be formed, by declaration or by extend(),
\* owns exactly one holder per distinct tag.
C1_OneHolderPerTag ==
    \A i, j \in 1..Len(coll) : tag_of(coll[i].type) = tag_of(coll[j].type) => i = j

\* C2: narrowing construction of D from S is a projection by tag: each holder
\* of D whose tag S declares stores what S stores for that tag, and every
\* other holder of D is in its default state.
C2_NarrowingProjectsByTag ==
    [][last'.op = "narrow" =>
        \A i \in 1..Len(coll') :
            LET t == tag_of(coll'[i].type)
            IN IF Declares(coll, t)
               THEN Stored(coll'[i]) = Stored(HolderOf(coll, t))
               ELSE Stored(coll'[i]) = Stored(DefaultHolder(coll'[i].type))]_vars

\* C3: extend() yields a Collection in which every tag of the original that
\* is not among the supplied containers looks up to the value the original
\* held, and every supplied container whose tag is new looks up to the value
\* supplied for that tag (by the last container carrying it).
C3_ExtendPreservesAndAdds ==
    [][last'.op = "extend" =>
        /\ ~last'.rejected
        /\ \A pack \in Packs : ExtendedBy(pack) =>
            /\ \A t \in Tags \ SuppliedTags(pack) :
                   Declares(coll, t) => Collection_call(coll', t) = Collection_call(coll, t)
            /\ \A t \in SuppliedTags(pack) :
                   ~Declares(coll, t) =>
                       LET a == LastSupplied(pack, t)
                       IN IF a.kind = "Value"
                          THEN Collection_call(coll', t) =
                                   [rejected |-> FALSE, result |-> a.d_value]
                          ELSE \A kv \in a.d_value :
                                   Collection_call_key(coll', t, kv[1]) =
                                       [rejected |-> FALSE, result |-> {kv[2]}]]_vars

\* C4: when an accepted extend() is given a Value whose tag the Collection
\* already declares, the supplied value overwrites the existing holder of that
\* tag: that holder is still the one the tag resolves to, lookup returns the
\* supplied value, and no holder of that tag still stores the old value.
C4_ExtendOverwritesExisting ==
    [][last'.op = "extend" => \A pack \in Packs : ExtendedBy(pack) =>
        \A t \in SuppliedTags(pack) :
            (Declares(coll, t) /\ LastSupplied(pack, t).kind = "Value") =>
                LET new == LastSupplied(pack, t).d_value
                    old == HolderOf(coll, t)
                IN /\ by_tag_impl(t, Holders(coll')) = old.type
                   /\ Collection_call(coll', t) = [rejected |-> FALSE, result |-> new]
                   /\ \A j \in 1..Len(coll') :
                          (tag_of(coll'[j].type) = t /\ has_value(old.d_value)
                              /\ old.d_value # new)
                          => coll'[j].d_value # old.d_value]_vars

\* C5: a Collection's operator bool is true exactly when every one of its
\* holders reports ready; a Collection without holders is ready.
C5_ReadyIffAllHoldersReady ==
    /\ Collection_bool(coll) <=> \A i \in 1..Len(coll) : Holder_bool(coll[i])
    /\ Len(coll) = 0 => Collection_bool(coll)
\* A Collection that is not ready: its first holder holds an entry and is
\* ready, its second is a required Single without a value.
C5_Witness ==
    /\ last.op = "merge"
    /\ Len(coll) = 2
    /\ coll[1].type = MultipleT("context", "type") /\ DOMAIN coll[1].d_values # {}
    /\ Holder_bool(coll[1])
    /\ coll[2].type = SingleT("service", TRUE) /\ ~Holder_bool(coll[2])
    /\ ~Collection_bool(coll)

\* C6: a Single holder is ready exactly when it holds a value or is not
\* Required; a default-constructed non-required Single is ready.
C6_SingleReadyIffValueOrOptional ==
    \A i \in 1..Len(coll) :
        coll[i].type.kind = "Single" =>
            /\ Holder_bool(coll[i]) <=>
                   (has_value(coll[i].d_value) \/ ~coll[i].type.required)
            /\ (last.op = "declare" /\ ~coll[i].type.required) => Holder_bool(coll[i])
\* A default-constructed Collection whose only Single is not Required.
C6_Witness ==
    /\ last.op = "declare"
    /\ Len(coll) = 2
    /\ coll[1].type = SingleT("service", FALSE)
    /\ ~has_value(coll[1].d_value) /\ Holder_bool(coll[1])
    /\ coll[2].type = MultipleT("context", "type")

\* A default-constructed Collection does not report ready, and neither does
\* any required Single in it.
FreshRequiredNotReady ==
    last.op = "declare" =>
        \A i \in 1..Len(coll) :
            (coll[i].type.kind = "Single" /\ coll[i].type.required)
            => ~Holder_bool(coll[i]) /\ ~Collection_bool(coll)
\* After the accepted coll << attr of this step, the required Single that the
\* assignment went to reports ready.
ReadyAfter(attr) ==
    MergedIn(attr) =>
        LET H == by_tag_impl(attr.tag, Holders(coll))
        IN (H.kind = "Single" /\ H.required) => Holder_bool(get(H, coll'))

\* C7 as claimed: a default-constructed required Single (and its Collection)
\* is not ready, and after any Value for its tag is assigned it is ready.
C7_ReadyAfterAnyValue ==
    /\ []FreshRequiredNotReady
    /\ [][last'.op = "merge" => \A attr \in Values : ReadyAfter(attr)]_vars

\* C7 as amended: a default-constructed required Single (and its Collection)
\* is not ready, and after a Value that carries a value is assigned to it, by
\* = or by the << that resolves its tag to it, it is ready.
C7_ReadyAfterValueWithContent ==
    /\ []FreshRequiredNotReady
    /\ [][last'.op = "merge" =>
              \A attr \in Values : has_value(attr.d_value) => ReadyAfter(attr)]_vars
\* A required Single that was given a value and made its Collection ready.
C7_Witness ==
    /\ last.op = "merge" /\ ~last.rejected
    /\ Len(coll) = 1
    /\ coll[1].type = SingleT("service", TRUE)
    /\ has_value(coll[1].d_value) /\ Holder_bool(coll[1]) /\ Collection_bool(coll)

\* C8: scalar assignment is last-write-wins: after coll << Value the scalar
\* lookup of its tag returns exactly what that Value carried, and no << changes
\* what lookup returns for another tag.
C8_LastWriteWins ==
    [][last'.op = "merge" => \A attr \in Attrs : MergedIn(attr) =>
        /\ attr.kind = "Value" =>
               Collection_call(coll', attr.tag) =
                   [rejected |-> FALSE, result |-> attr.d_value]
        /\ \A t \in Tags \ {attr.tag} :
               Collection_call(coll', t) = Collection_call(coll, t)]_vars
\* After several << the scalar lookup returns the value written last.
C8_Witness ==
    /\ last.op = "merge" /\ ~last.rejected
    /\ Collection_call(coll, "service") = [rejected |-> FALSE, result |-> {MaxVal}]
    /\ Declares(coll, "context") /\ DOMAIN HolderOf(coll, "context").d_values # {}

\* C9: assigning a KeyValue to a Multiple holder gives the previous map with
\* (name -> value) inserted or overwritten when the KeyValue carries a value,
\* and exactly the previous map when it is empty; other entries never change.
C9_KeyValueAssignment ==
    [][last'.op = "merge" => \A kv \in KeyValues : MergedIn(kv) =>
        LET before == HolderOf(coll, kv.tag).d_values
            after == HolderOf(coll', kv.tag).d_values
        IN IF has_value(kv.d_value)
           THEN \E name \in Names, v \in Vals :
                    /\ kv.d_value = {<<name, v>>}
                    /\ DOMAIN after = DOMAIN before \cup {name}
                    /\ after[name] = v
                    /\ \A n \in DOMAIN before \ {name} : after[n] = before[n]
           ELSE /\ after = before
                /\ Cardinality(DOMAIN after) = Cardinality(DOMAIN before)]_vars
\* A map that holds distinct values under both names.
C9_Witness ==
    /\ last.op = "merge" /\ ~last.rejected
    /\ Declares(coll, "context")
    /\ DOMAIN HolderOf(coll, "context").d_values = Names
    /\ HolderOf(coll, "context").d_values["LID"] # HolderOf(coll, "context").d_values["DFPATH"]

\* Keyed lookup finds a value under the name.
Found(c, Tag, name, v) ==
    Collection_call_key(c, Tag, name) = [rejected |-> FALSE, result |-> {v}]

\* C10: keyed lookup returns the value stored under a name exactly when a
\* non-empty KeyValue of that name was assigned earlier, and std::nullopt for
\* every other name; it never changes the Collection.
C10_KeyedLookup ==
    [][/\ last'.op = "lookup_key" =>
            /\ coll' = coll
            /\ LET t == last'.args[1]
                   name == last'.args[2]
               IN (Declares(coll, t) /\ HolderOf(coll, t).type.kind = "Multiple") =>
                      /\ ~last'.rejected
                      /\ LET m == HolderOf(coll, t).d_values
                         IN last'.result = IF name \in DOMAIN m THEN {m[name]} ELSE {}
       \* assigned, then found
       /\ last'.op = "merge" =>
              \A kv \in KeyValues : MergedIn(kv) =>
                  \A p \in kv.d_value : Found(coll', kv.tag, p[1], p[2])
       \* found only if assigned
       /\ coll' # coll =>
              \A t \in Tags, name \in Names :
                  LET found == Collection_call_key(coll', t, name)
                  IN (/\ ~found.rejected /\ has_value(found.result)
                      /\ ~Found(coll, t, name, value_of(found.result))) =>
                         MergedIn(KeyValue(t, {<<name, value_of(found.result)>>}))]_vars
\* A lookup of a name that was never assigned, in a map that holds an entry:
\* not found.
C10_Witness ==
    /\ last.op = "lookup_key" /\ ~last.rejected
    /\ last.result = nullopt
    /\ DOMAIN HolderOf(coll, last.args[1]).d_values # {}

\* ----------------------------------------------------------- operator+
\* operator+(Collection &&, Value &&) and operator+(Collection &&, KeyValue &&)
plus_coll_attr(collection, attribute) == Collection_extend(collection, <<attribute>>)

\* operator+(Value &&, Collection &&) and operator+(KeyValue &&, Collection &&):
\* return std::move(collection) + std::move(attribute);
plus_attr_coll(attribute, collection) == plus_coll_attr(collection, attribute)

\* operator+ of two containers: (Collection<> {} + lhs) + rhs, and for
\* KeyValue + Value: return std::move(rhs) + std::move(lhs).
plus_attr_attr(lhs, rhs) ==
    LET swap == lhs.kind = "KeyValue" /\ rhs.kind = "Value"
        l == IF swap THEN rhs ELSE lhs
        r == IF swap THEN lhs ELSE rhs
        first == plus_coll_attr(<<>>, l)
    IN IF first.rejected THEN first ELSE plus_coll_attr(first.coll, r)

\* Collection + Collection: no operator+ takes two Collections; both convert
\* through the implicit Collection::operator bool and int's + adds them up.
plus_coll_coll(lhs, rhs) ==
    (IF Collection_bool(lhs) THEN 1 ELSE 0) + (IF Collection_bool(rhs) THEN 1 ELSE 0)

\* The containers the sums are made of: two Services that differ, one
\* container of each other scalar tag, and a Context.
SumAttrs ==
    {Value("service", {v}) : v \in {1, MaxVal}}
        \cup {Value(t, {1}) : t \in {"subsystem", "label", "pwho"}}
        \cup {KeyValue("context", {<<"LID", 1>>})}
SumOps == {"attr+attr", "coll+attr", "attr+coll"}

\* Collection<> {} is where (Collection<> {} + lhs) + rhs starts from.
InitSum ==
    /\ coll = DefaultCollection(<<>>)
    /\ last = Op("declare", FALSE, <<>>, nullopt)

\* auto sum = lhs + rhs;   last.args lists the containers of the expression
\* from left to right.
SumContainers(lhs, rhs) ==
    /\ last.op = "declare"
    /\ LET r == plus_attr_attr(lhs, rhs)
       IN /\ coll' = IF r.rejected THEN coll ELSE r.coll
          /\ last' = Op("attr+attr", r.rejected, <<lhs, rhs>>, nullopt)

\* std::move(coll) + attribute
SumRight(attribute) ==
    /\ ~last.rejected /\ last.op # "coll+coll"
    /\ Len(last.args) < MaxOperands
    /\ LET r == plus_coll_attr(coll, attribute)
       IN /\ coll' = IF r.rejected THEN coll ELSE r.coll
          /\ last' = Op("coll+attr", r.rejected, Append(last.args, attribute), nullopt)

\* attribute + std::move(coll)
SumLeft(attribute) ==
    /\ ~last.rejected /\ last.op # "coll+coll"
    /\ Len(last.args) < MaxOperands
    /\ LET r == plus_attr_coll(attribute, coll)
       IN /\ coll' = IF r.rejected THEN coll ELSE r.coll
          /\ last' = Op("attr+coll", r.rejected, <<attribute>> \o last.args, nullopt)

\* auto n = std::move(coll) + (lhs + rhs);   coll is itself a sum.  The result
\* is an int, kept in last.result; no Collection comes out of it.
SumColls(lhs, rhs) ==
    /\ ~last.rejected /\ last.op \in SumOps
    /\ Len(last.args) + 2 <= MaxOperands
    /\ LET r == plus_attr_attr(lhs, rhs)
       IN /\ coll' = coll
          /\ last' = Op("coll+coll", r.rejected, last.args \o <<lhs, rhs>>,
                        IF r.rejected THEN nullopt
                        ELSE {plus_coll_coll(coll, r.coll)})

NextSum ==
    \/ \E lhs \in SumAttrs, rhs \in SumAttrs : SumContainers(lhs, rhs)
    \/ \E attribute \in SumAttrs : SumRight(attribute)
    \/ \E attribute \in SumAttrs : SumLeft(attribute)
    \/ \E lhs \in SumAttrs, rhs \in SumAttrs : SumColls(lhs, rhs)

SpecSum == InitSum /\ [][NextSum]_vars

\* The containers of an expression are Values of pairwise distinct tags.
DistinctValues(args) ==
    /\ \A i \in 1..Len(args) : args[i].kind = "Value"
    /\ \A i, j \in 1..Len(args) : args[i].tag = args[j].tag => i = j
DeclaredTags(c) == {tag_of(c[i].type) : i \in 1..Len(c)}

\* C11: a sum of Value containers of pairwise distinct tags, in whatever
\* order and pairing its + are evaluated, is a Collection that declares
\* exactly the tags of the containers and whose scalar lookup returns for
\* each tag the value its container carried.
C11_SumOrderIndependent ==
    (last.op \in SumOps \cup {"coll+coll"} /\ Len(last.args) >= 2
        /\ DistinctValues(last.args)) =>
            /\ ~last.rejected
            /\ last.op \in SumOps
            /\ DeclaredTags(coll) = SuppliedTags(last.args)
            /\ \A i \in 1..Len(last.args) :
                   Collection_call(coll, last.args[i].tag) =
                       [rejected |-> FALSE, result |-> last.args[i].d_value]

\* C12: operator+ is associative in the final contents: when (a + b) + c is
\* evaluated, a + (b + c) is accepted too and scalar lookup returns the same
\* for every tag in both.
C12_SumAssociative ==
    [][(/\ last.op = "attr+attr" /\ ~last.rejected
        /\ last'.op = "coll+attr" /\ ~last'.rejected) =>
            LET a == last.args[1]
                b == last.args[2]
                c == last'.args[3]
                inner == plus_attr_attr(b, c)
                right == plus_attr_coll(a, inner.coll)
            IN /\ ~inner.rejected /\ ~right.rejected
               /\ \A t \in SumTags :
                      Collection_call(coll', t) = Collection_call(right.coll, t)]_vars

\* Both operands of a + carry a value for the scalar tag of the container.
BothCarry(c, attribute) ==
    /\ attribute.kind = "Value" /\ has_value(attribute.d_value)
    /\ Declares(c, attribute.tag)
    /\ has_value(HolderOf(c, attribute.tag).d_value)

\* C13: when both operands of + carry a value for one scalar tag, the sum
\* holds the value of the right-hand operand, for Value + Value,
\* Collection + Value and Value + Collection.
C13_RightOperandWins ==
    [][~last'.rejected =>
        /\ last'.op = "attr+attr" =>
               LET lhs == last'.args[1]
                   rhs == last'.args[2]
               IN (/\ lhs.kind = "Value" /\ has_value(lhs.d_value)
                   /\ rhs.kind = "Value" /\ has_value(rhs.d_value)
                   /\ lhs.tag = rhs.tag) =>
                      Collection_call(coll', rhs.tag) =
                          [rejected |-> FALSE, result |-> rhs.d_value]
        /\ last'.op = "coll+attr" =>
               LET rhs == last'.args[Len(last'.args)]
               IN BothCarry(coll, rhs) =>
                      Collection_call(coll', rhs.tag) =
                          [rejected |-> FALSE, result |-> rhs.d_value]
        /\ last'.op = "attr+coll" =>
               LET lhs == last'.args[1]
               IN BothCarry(coll, lhs) =>
                      Collection_call(coll', lhs.tag) =
                          Collection_call(coll, lhs.tag)]_vars

\* ------------------------------------------------- the tag/type contract
\* Value<Tag, V> and KeyValue<Tag, V> with V spelled out: "int" is a value
\* type other than Tag::type, "pair_int" a pair whose value is not Tag::type.
Container(kind, Tag, V, opt) == [kind |-> kind, tag |-> Tag, V |-> V, d_value |-> opt]
\* Containers of every tag, kind and value type, each carrying a value.
ContractAttrs ==
    {Container("Value", t, V, {1}) : t \in Tags, V \in {"type", "int"}}
        \cup {Container("KeyValue", t, V, {<<"LID", 1>>}) :
                  t \in Tags, V \in {"pair", "pair_int"}}

\* bool was = coll; coll << attr;  with any container.  last.result keeps was.
MergeAny(attr) ==
    LET r == Merge(coll, attr)
    IN /\ coll' = r.coll
       /\ last' = Op("merge", r.rejected, <<attr>>, {Collection_bool(coll)})

\* Single<Tag, Required> holder; holder = attr;  (or Multiple<Tag>): a holder
\* that stands alone is the Collection of that one holder.
AssignHolder(attr) ==
    /\ Len(coll) = 1
    /\ LET r == Holder_assign(coll[1], attr)
       IN /\ coll' = [coll EXCEPT ![1] = r.holder]
          /\ last' = Op("assign", r.rejected, <<attr>>, nullopt)

NextContract ==
    \/ \E attr \in ContractAttrs \cup Attrs : MergeAny(attr)
    \/ \E attr \in ContractAttrs : AssignHolder(attr)
    \/ \E t \in Tags : Lookup(t)
    \/ \E t \in Tags, k \in Names : LookupKey(t, k)

SpecContract == Init /\ [][NextContract]_vars

\* The container is not what holder type H takes: another tag, a KeyValue
\* for a Single or a Value for a Multiple, or another value type.
Mismatch(H, attr) ==
    \/ attr.tag # H.tag
    \/ H.kind = "Single" /\ attr.kind = "KeyValue"
    \/ H.kind = "Multiple" /\ attr.kind = "Value"
    \/ H.kind = "Single" /\ attr.V # H.V
    \/ H.kind = "Multiple" /\ attr.V # "pair"

\* C14: an operation that violates the tag/type contract is rejected and a
\* rejected operation changes no holder: << of a container whose tag is not
\* declared, assignment of a container of the wrong kind, tag or value type,
\* keyed lookup on a tag a Single holder owns.
C14_ViolationsRejected ==
    [][/\ last'.op = "merge" =>
              LET attr == last'.args[1]
              IN (~Declares(coll, attr.tag)
                    \/ Mismatch(by_tag_impl(attr.tag, Holders(coll)), attr)) =>
                        last'.rejected
       /\ last'.op = "assign" =>
              (Mismatch(coll[1].type, last'.args[1]) => last'.rejected)
       /\ last'.op = "lookup_key" =>
              LET H == by_tag_impl(last'.args[1], Holders(coll))
              IN H.kind = "Single" => last'.rejected
       /\ last'.rejected => coll' = coll]_vars
\* A KeyValue of the holder's own tag was refused by a Single that holds a
\* value, and the value is still there.
C14_Witness ==
    /\ last.op = "assign" /\ last.rejected
    /\ last.args[1].kind = "KeyValue" /\ last.args[1].tag = coll[1].type.tag
    /\ coll[1].type.kind = "Single" /\ has_value(coll[1].d_value)

\* C15: << of a Value stores exactly the Value's optional in the Single
\* holder, the empty one included: an empty Value leaves a required holder,
\* and its Collection, not ready whatever the holder held before, while an
\* empty KeyValue changes nothing.
C15_SingleStoresOptional ==
    [][(last'.op = "merge" /\ ~last'.rejected) =>
        LET attr == last'.args[1]
            after == HolderOf(coll', attr.tag)
        IN /\ attr.kind = "Value" =>
                  /\ after.d_value = attr.d_value
                  /\ (~has_value(attr.d_value) /\ after.type.required) =>
                         ~Holder_bool(after) /\ ~Collection_bool(coll')
           /\ (attr.kind = "KeyValue" /\ ~has_value(attr.d_value)) =>
                  coll' = coll]_vars
\* A Collection that was ready and, after the << of an empty Value into its
\* required Single, is not ready any more.
C15_Witness ==
    /\ last.op = "merge" /\ ~last.rejected
    /\ last.args = <<Value("service", nullopt)>>
    /\ last.result = {TRUE}
    /\ HolderOf(coll, "service").type.required
    /\ ~has_value(HolderOf(coll, "service").d_value)
    /\ ~Collection_bool(coll)

\* --------------------------------------------------- narrowing assignment
\* d = other.  Between Collections of one type it is the defaulted copy
\* assignment; otherwise the template operator=, whose body is
\* (assign<Holders>(other), ...) and nothing more.
Collection_copy_assign(d, other) ==
    IF Holders(other) = Holders(d) THEN other
    ELSE AssignAll(d, Holders(d), other)

\* The template operator= returns Collection& and has no return statement:
\* flowing off its end is undefined.  What builds of it do after the
\* assignments: return to the caller, crash, or never come back.
FlowsOffTheEnd == {"returns", "crashes", "hangs"}

\* The Collections assigned from: up to two holders, a Single unset or set,
\* a Multiple empty or with one entry.
SourceHolders(H) ==
    IF H.kind = "Single"
    THEN {[DefaultHolder(H) EXCEPT !.d_value = o] : o \in {nullopt, {MaxVal}}}
    ELSE {[DefaultHolder(H) EXCEPT !.d_values = m] :
             m \in {EmptyMap, MapStore(EmptyMap, "LID", MaxVal)}}
SourcesOf(Hs) ==
    IF Len(Hs) = 0 THEN {<<>>}
    ELSE IF Len(Hs) = 1 THEN {<<h>> : h \in SourceHolders(Hs[1])}
    ELSE {<<h1, h2>> : h1 \in SourceHolders(Hs[1]), h2 \in SourceHolders(Hs[2])}
Sources == UNION {SourcesOf(Hs) : Hs \in {P \in DeclPacks : Len(P) <= 2}}

\* coll << attribute, with a container that carries a value.
Populate(attr) ==
    /\ last.result = nullopt
    /\ LET r == Merge(coll, attr)
       IN /\ ~r.rejected
          /\ coll' = r.coll
          /\ last' = Op("merge", FALSE, <<>>, nullopt)

\* coll = other;  between Collections of one type.
CopyAssign(other) ==
    /\ last.result = nullopt
    /\ Holders(other) = Holders(coll)
    /\ coll' = Collection_copy_assign(coll, other)
    /\ last' = Op("operator=", FALSE, <<other>>, nullopt)

\* coll = other;  between Collections of different types.  When the call does
\* not come back the assignments were made or were not, and the program
\* takes no further step.
NarrowAssign(other) ==
    /\ last.result = nullopt
    /\ Holders(other) # Holders(coll)
    /\ \E outcome \in FlowsOffTheEnd :
          /\ coll' \in IF outcome = "returns"
                       THEN {Collection_copy_assign(coll, other)}
                       ELSE {coll, Collection_copy_assign(coll, other)}
          /\ last' = Op("operator=", FALSE, <<other>>,
                        IF outcome = "returns" THEN nullopt ELSE {outcome})

NextAssign ==
    \/ \E attr \in PackAttrs : Populate(attr)
    \/ \E other \in Sources : CopyAssign(other)
    \/ \E other \in Sources : NarrowAssign(other)

SpecAssign == Init /\ [][NextAssign]_vars

\* C16: d = s comes back with every holder d shares with s replaced by s's
\* (a Single unset when s's is unset, a Multiple's map exactly s's map) and
\* every other holder of d as it was; s is not changed.
C16_NarrowAssignReplacesShared ==
    [][last'.op = "operator=" =>
        LET other == last'.args[1]
        IN /\ last'.result = nullopt
           /\ \A i \in 1..Len(coll) :
                  coll'[i] = IF contains(coll[i].type, Holders(other))
                             THEN get(coll[i].type, other)
                             ELSE coll[i]]_vars

\* The first holder of c, in declaration order, whose tag is Tag.
FirstOfTag(c, Tag) ==
    CHOOSE i \in 1..Len(c) :
        /\ tag_of(c[i].type) = Tag
        /\ \A j \in 1..(i - 1) : tag_of(c[j].type) # Tag

\* C17: an accepted << of a container of tag T assigns the container to the
\* first holder, in declaration order, whose tag is T, which is the holder
\* scalar and keyed lookup of T read, and leaves every other holder as it
\* was.
C17_MergeChangesOneHolder ==
    [][(last'.op = "merge" /\ ~last'.rejected) =>
        LET attr == last'.args[1]
            i == FirstOfTag(coll, attr.tag)
        IN /\ Declares(coll, attr.tag)
           /\ Len(coll') = Len(coll)
           /\ coll'[i] = Holder_assign(coll[i], attr).holder
           /\ \A j \in 1..Len(coll) : j # i => coll'[j] = coll[j]
           /\ Collection_call(coll', attr.tag).result =
                  (IF coll'[i].type.kind = "Single" THEN coll'[i].d_value
                   ELSE coll'[i].d_values)
           /\ \A k \in Names :
                  coll'[i].type.kind = "Multiple" =>
                      Collection_call_key(coll', attr.tag, k).result =
                          Multiple_call(coll'[i], k)]_vars
\* Two holders of one tag: << reached the first and not the second.
C17_Witness ==
    /\ last.op = "merge" /\ ~last.rejected
    /\ Len(coll) = 2
    /\ tag_of(coll[1].type) = tag_of(coll[2].type)
    /\ has_value(coll[1].d_value) /\ ~has_value(coll[2].d_value)
====
